---- MODULE Spec2Model ----
(***************************************************************************)
(* Hop-On SG bus tracker: the arrival normaliser of the LTA service module *)
(* (calculateMinutesUntilArrival, parseBusArrivalData, fetchBusArrivals)   *)
(* and the state machine of DashboardPage (loadBusArrivals, the 30-second  *)
(* auto-refresh, the manual refresh, the clock).                           *)
(*                                                                         *)
(* LandingPage (loadBusStopsFromCSV, the geolocation request, the distance *)
(* and filter effects) is modelled next to it.                             *)
(*                                                                         *)
(* The specifications share the variables:                                 *)
(*   Spec            the dashboard and the fetches it has in flight        *)
(*   SpecEta         calculateMinutesUntilArrival on drawn inputs          *)
(*   SpecParse       parseBusArrivalData on drawn API responses            *)
(*   SpecMap         mapLoadStatus and mapBusType on drawn codes           *)
(*   SpecLanding     the landing page over a drawn catalog file            *)
(*   SpecLandingFair SpecLanding with the callbacks the browser owes       *)
(*   SpecNavigate    handleBusStopClick on drawn stops                     *)
(*   SpecFair        the dashboard with every started fetch settling       *)
(***************************************************************************)
EXTENDS Integers, Sequences, FiniteSets, TLC

VARIABLES
    \* module-level configuration of the LTA service
    API_KEY,
    \* the number of fetches and of refresh timers a run may start
    fetchBudget,
    \* DashboardPage: route parameter and React state
    phase, busStopCode, currentTime, isRefreshing, selectedBus,
    buses, loading, error, lastUpdated,
    \* environment of the dashboard
    inflight, httpRequests, refreshTimers, wallClock, directOutcome,
    \* history of the run
    lastOp, lastResolved, awaitingRetry, busesFrom,
    \* one call of a pure function of the service module
    pc, arg, clk, ret,
    \* LandingPage: React state
    landingPhase, searchQuery, sortBy, userLocation, locationLoading,
    locationError, busStopsData, busStops, filteredStops, dataLoading,
    dataError,
    \* environment of the landing page: the catalog file served at
    \* /data/bus_stops.csv, navigator.geolocation, the requests pending
    csvFile, geolocationSupported, csvPending, geoPending,
    \* history of the landing page
    landingOp, geoOutcome, loadSucceeded

dashVars == <<phase, busStopCode, currentTime, isRefreshing, selectedBus,
              buses, loading, error, lastUpdated>>
envVars == <<inflight, httpRequests, refreshTimers, wallClock, directOutcome>>
histVars == <<lastOp, lastResolved, awaitingRetry, busesFrom>>
callVars == <<pc, arg, clk, ret>>
landVars == <<landingPhase, searchQuery, sortBy, userLocation, locationLoading,
              locationError, busStopsData, busStops, filteredStops,
              dataLoading, dataError, csvFile, geolocationSupported,
              csvPending, geoPending, landingOp, geoOutcome, loadSucceeded>>
confVars == <<API_KEY, fetchBudget>>
vars == <<confVars, dashVars, envVars, histVars, callVars, landVars>>

-----------------------------------------------------------------------------
(* Bounds *)

\* fetches (HTTP requests and direct calls) started in one run of Spec
MaxFetches == 3
\* fetches started in one run of SpecFair
MaxFairFetches == 2
\* the wall clock of Spec runs over 0 .. MaxClockSteps half-minutes
MaxClockSteps == 1
\* service records in an API response drawn by SpecParse
MaxServices == 2
\* SpecEta draws timestamps and current times on a grid of quarter-minutes
MaxQuarterMinutes == 8
\* rows of the catalog file drawn by SpecLanding
MaxRows == 2
\* characters of a stop name drawn by SpecNavigate
MaxNameLen == 3

-----------------------------------------------------------------------------
(* Values *)

\* JavaScript null, and a present value, for a nullable number or object
Null == <<>>
Some(v) == <<v>>

\* milliseconds per minute, the divisor of calculateMinutesUntilArrival
MsPerMinute == 60000

\* EstimatedArrival of a next-bus prediction: the empty string the API
\* sends for "no prediction", an ISO timestamp (held as its epoch
\* milliseconds), or a string that Date cannot parse
NoTimestamp == [k |-> "empty", ms |-> 0]
Timestamp(t) == [k |-> "iso", ms |-> t]
GarbageTimestamp == [k |-> "garbage", ms |-> 0]

Max(a, b) == IF a >= b THEN a ELSE b

-----------------------------------------------------------------------------
(* The LTA service module *)

\* !estimatedArrival of JavaScript: the empty string is falsy, every other
\* string is truthy
Falsy(estimatedArrival) == estimatedArrival.k = "empty"

calculateMinutesUntilArrival_noClamp(estimatedArrival, now) ==
    IF Falsy(estimatedArrival) THEN Null
    ELSE IF estimatedArrival.k = "garbage" THEN Some(0)
    ELSE Some((estimatedArrival.ms - now) \div MsPerMinute)

\* Math.floor(diffMs / 60000), clamped at 0.  An unparsable string gives an
\* Invalid Date, diffMs = NaN, and NaN >= 0 is false, so 0 is returned.
calculateMinutesUntilArrival(estimatedArrival, now) ==
    IF Falsy(estimatedArrival) THEN Null
    ELSE IF estimatedArrival.k = "garbage" THEN Some(0)
    ELSE LET diffMs == estimatedArrival.ms - now
             diffMinutes == diffMs \div MsPerMinute
         IN  IF diffMinutes >= 0 THEN Some(diffMinutes) ELSE Some(0)

\* property names every object literal inherits from Object.prototype; a
\* lookup loadMap[key] with such a key finds the inherited member
ObjectPrototypeKeys ==
    {"constructor", "toString", "valueOf", "hasOwnProperty", "__proto__"}

mapLoadStatus(load) ==
    CASE load = "SEA" -> "low"
      [] load = "SDA" -> "medium"
      [] load = "LSD" -> "high"
      [] load = "" -> "unknown"
      [] load \in ObjectPrototypeKeys -> "Object.prototype." \o load
      [] OTHER -> "unknown"

mapBusType(type) ==
    CASE type = "SD" -> "Single Deck"
      [] type = "DD" -> "Double Deck"
      [] type = "BD" -> "Bendy"
      [] type = "" -> "Unknown"
      [] type \in ObjectPrototypeKeys -> "Object.prototype." \o type
      [] OTHER -> "Unknown"

\* the three predictions of a service record, in order
NextBuses(service) == <<service.NextBus, service.NextBus2, service.NextBus3>>

NotNull(time) == time # Null

\* the object built for one service record by the map callback
BusOf(service, now) ==
    LET nextBuses == NextBuses(service)
        arrivals == SelectSeq([i \in 1..3 |->
                                 calculateMinutesUntilArrival(
                                     nextBuses[i].EstimatedArrival, now)],
                              NotNull)
        firstBus == service.NextBus
    IN  [number |-> service.ServiceNo,
         arrivals |-> IF Len(arrivals) > 0 THEN arrivals
                      ELSE <<Null, Null, Null>>,
         load |-> mapLoadStatus(firstBus.Load),
         type |-> mapBusType(firstBus.Type)]

\* bus.arrivals.some(time => time !== null)
HasArrival(bus) == \E i \in DOMAIN bus.arrivals : bus.arrivals[i] # Null

parseBusArrivalData_keepAll(Services, now) ==
    [i \in 1..Len(Services) |-> BusOf(Services[i], now)]

\* Services.map(...).filter(...): the list of buses of the response
parseBusArrivalData(Services, now) ==
    SelectSeq([i \in 1..Len(Services) |-> BusOf(Services[i], now)],
              HasArrival)

\* import.meta.env.VITE_LTA_API_KEY: unset or empty (both falsy, held as
\* ""), the placeholder of the .env template, or a real account key
ApiKeys == {"", "your_api_key_here", "account-key"}

\* Boolean(API_KEY && API_KEY !== 'your_api_key_here')
isApiKeyConfigured == API_KEY # "" /\ API_KEY # "your_api_key_here"

\* the guard at the head of fetchBusArrivals: if (!API_KEY) throw
fetchBusArrivalsThrowsEarly == API_KEY = ""

\* ways a request that was sent can fail: fetch rejects, response.ok is
\* false, or response.json() / parseBusArrivalData throws
FailureKinds == {"NetworkFailure", "UpstreamError", "MalformedResponse"}

-----------------------------------------------------------------------------
(* Inputs *)

Prediction(ea) == [EstimatedArrival |-> ea, Load |-> "SEA", Type |-> "DD"]

\* service records with the given numbers and triples of EstimatedArrival
ServiceRecords(nos, triples) ==
    {[ServiceNo |-> no, NextBus |-> Prediction(e[1]),
      NextBus2 |-> Prediction(e[2]), NextBus3 |-> Prediction(e[3])] :
        no \in nos, e \in triples}

SeqsUpTo(S, n) == UNION {[1..k -> S] : k \in 0..n}

\* the wall clock of Spec, in milliseconds
ClockTimes == {k * (MsPerMinute \div 2) : k \in 0..MaxClockSteps}

\* responses the transit API gives the dashboard in Spec: no service, or
\* one service with no prediction, with a first prediction only, or with
\* a second and a third only; predictions are for one minute after 0
DashTriples ==
    {<<NoTimestamp, NoTimestamp, NoTimestamp>>,
     <<Timestamp(MsPerMinute), NoTimestamp, NoTimestamp>>,
     <<NoTimestamp, Timestamp(MsPerMinute), Timestamp(MsPerMinute)>>}

DashResponses == SeqsUpTo(ServiceRecords({"15"}, DashTriples), 1)

StopCodes == {"44411", "01012"}

-----------------------------------------------------------------------------
(* LandingPage: strings, the catalog file, distances, sorting *)

\* A JavaScript string is held as the sequence of its characters; the
\* catalog and the search box use the letters a, b, A, B and the digits
\* 0, 1, 2

\* String.prototype.toLowerCase
LowerChar(c) == CASE c = "A" -> "a" [] c = "B" -> "b" [] OTHER -> c
toLowerCase(s) == [i \in 1..Len(s) |-> LowerChar(s[i])]

\* String.prototype.includes: query occurs in s as a contiguous run
includes(s, query) ==
    \E i \in 0..(Len(s) - Len(query)) : SubSeq(s, i + 1, i + Len(query)) = query

\* the collation of localeCompare: digits before letters, letters in
\* alphabetical order whatever their case; where two strings differ in
\* case only, the first position that differs decides, lower case first
PrimaryWeight(c) ==
    CASE c = "0" -> 1 [] c = "1" -> 2 [] c = "2" -> 3
      [] c \in {"a", "A"} -> 4 [] c \in {"b", "B"} -> 5
CaseWeight(c) == IF c \in {"A", "B"} THEN 1 ELSE 0

\* lexicographic comparison of two sequences of weights: -1, 0 or 1
RECURSIVE LexCompare(_, _)
LexCompare(s, t) ==
    IF s = <<>> /\ t = <<>> THEN 0
    ELSE IF s = <<>> THEN -1
    ELSE IF t = <<>> THEN 1
    ELSE IF Head(s) < Head(t) THEN -1
    ELSE IF Head(s) > Head(t) THEN 1
    ELSE LexCompare(Tail(s), Tail(t))

localeCompare(a, b) ==
    LET primary == LexCompare([i \in 1..Len(a) |-> PrimaryWeight(a[i])],
                              [i \in 1..Len(b) |-> PrimaryWeight(b[i])])
    IN IF primary # 0 THEN primary
       ELSE LexCompare([i \in 1..Len(a) |-> CaseWeight(a[i])],
                       [i \in 1..Len(b) |-> CaseWeight(b[i])])

\* A coordinate cell of the file: the longest prefix of the text that
\* reads as a decimal number (Null when there is none; otherwise its value
\* in ten-thousandths of a degree) and the text that follows it
CoordText(num, tail) == [num |-> num, tail |-> tail]

\* the whole cell is a number
IsNumericText(text) == text.num # Null /\ text.tail = ""

\* parseFloat(row.Latitude || row.latitude): the number the text starts
\* with, whatever follows it; NaN (held as Null) when the text starts
\* with no number, is empty, or the cell is missing
parseFloat(text) == text.num

\* a || b for a text cell: the empty string and undefined are falsy
OrElse(a, b) == IF a = Null \/ a = Some(<<>>) THEN b ELSE a

\* the row-to-stop mapping of the complete callback; the file carries one
\* of the two header spellings, the other key of each pair is undefined
StopOfRow(row) ==
    [code |-> OrElse(row.BusStopCode, Null),
     name |-> OrElse(row.Description, Null),
     road |-> OrElse(row.RoadName, Null),
     latitude |-> parseFloat(row.Latitude),
     longitude |-> parseFloat(row.Longitude)]

\* stop.code && stop.name && !isNaN(stop.latitude) && !isNaN(stop.longitude)
ValidStop(stop) ==
    /\ stop.code # Null
    /\ stop.name # Null
    /\ stop.latitude # Null
    /\ stop.longitude # Null

\* results.data.map(...).filter(...)
StopsOfFile(rows) ==
    SelectSeq([i \in 1..Len(rows) |-> StopOfRow(rows[i])], ValidStop)

\* the fixed fallback coordinate (Orchard Road), and a position the device
\* reports, in ten-thousandths of a degree
FallbackLocation == [latitude |-> 13048, longitude |-> 1038318]
DevicePosition == [latitude |-> 13000, longitude |-> 1038000]

\* the great-circle distance R * c of haversine in metres, for the
\* coordinates of the catalog rows below: the values of
\* 6371 * 2 * asin(sqrt(a)) * 1000, rounded
DistanceMetres(lat1, lon1, lat2, lon2) ==
    CASE <<lat1, lon1>> = <<13000, 1038000>> ->
            (CASE <<lat2, lon2>> = <<13000, 1038000>> -> 0
               [] <<lat2, lon2>> = <<13050, 1038000>> -> 556
               [] <<lat2, lon2>> = <<13500, 1038000>> -> 5560)
      [] <<lat1, lon1>> = <<13048, 1038318>> ->
            (CASE <<lat2, lon2>> = <<13000, 1038000>> -> 3575
               [] <<lat2, lon2>> = <<13050, 1038000>> -> 3535
               [] <<lat2, lon2>> = <<13500, 1038000>> -> 6145)

\* haversine: distances and their display values are held in
\* thousandths, so a value of d km is the integer 1000 * d and a value of
\* m metres is 1000 * m; below one kilometre the unit is 'm'
haversine(lat1, lon1, lat2, lon2) ==
    LET distance == DistanceMetres(lat1, lon1, lat2, lon2)
    IN IF distance < 1000
       THEN [value |-> distance * 1000, unit |-> "m"]
       ELSE [value |-> distance, unit |-> "km"]

distanceValue_rawValue(distance) == distance.value

\* distance.unit === 'km' ? distance.value : distance.value / 1000
distanceValue(distance) ==
    IF distance.unit = "km" THEN distance.value ELSE distance.value \div 1000

\* the stop with its distance from the user, as the distance effect
\* builds it
WithDistance(stop, location) ==
    LET distance == haversine(location.latitude, location.longitude,
                                      stop.latitude[1], stop.longitude[1])
    IN [code |-> stop.code, name |-> stop.name, road |-> stop.road,
        latitude |-> stop.latitude, longitude |-> stop.longitude,
        distance |-> distance, distanceValue |-> distanceValue(distance)]

\* the comparators of the two sort modes
CompareStops(mode, a, b) ==
    IF mode = "distance" THEN a.distanceValue - b.distanceValue
    ELSE localeCompare(a.name[1], b.name[1])

InsertStable_beforeEqual(sorted, x, mode) ==
    LET p == Cardinality({i \in 1..Len(sorted) :
                              CompareStops(mode, sorted[i], x) < 0})
    IN SubSeq(sorted, 1, p) \o <<x>> \o SubSeq(sorted, p + 1, Len(sorted))

\* Array.prototype.sort is stable: an element goes behind every element
\* that does not compare greater than it
InsertStable(sorted, x, mode) ==
    LET p == Cardinality({i \in 1..Len(sorted) :
                              CompareStops(mode, sorted[i], x) <= 0})
    IN SubSeq(sorted, 1, p) \o <<x>> \o SubSeq(sorted, p + 1, Len(sorted))

RECURSIVE sort(_, _)
sort(stops, mode) ==
    IF stops = <<>> THEN <<>>
    ELSE InsertStable(sort(SubSeq(stops, 1, Len(stops) - 1), mode),
                      stops[Len(stops)], mode)

\* the body of the distance effect: the catalog with distances, nearest
\* first
RankedStops(data, location) ==
    sort([i \in 1..Len(data) |-> WithDistance(data[i], location)], "distance")

\* the test of the filter callback for one stop; the three operands of ||
\* are evaluated left to right, and stop.road.toLowerCase() throws a
\* TypeError when the stop has no road
StopMatchThrows(stop, query) ==
    /\ ~includes(toLowerCase(stop.name[1]), query)
    /\ ~includes(toLowerCase(stop.code[1]), query)
    /\ stop.road = Null

StopMatches(stop, query) ==
    \/ includes(toLowerCase(stop.name[1]), query)
    \/ includes(toLowerCase(stop.code[1]), query)
    \/ (stop.road # Null /\ includes(toLowerCase(stop.road[1]), query))

\* the filter effect throws: the query is not empty and the callback
\* throws for some stop
FilterThrows(stops, query) ==
    /\ query # <<>>
    /\ \E i \in 1..Len(stops) : StopMatchThrows(stops[i], toLowerCase(query))

\* the body of the filter effect when it does not throw: filter by the
\* query, then sort by the mode
FilterAndSort(stops, query, mode) ==
    LET Keep(stop) == StopMatches(stop, toLowerCase(query))
        filtered == IF query # <<>> THEN SelectSeq(stops, Keep) ELSE stops
    IN IF mode \in {"distance", "name"} THEN sort(filtered, mode)
       ELSE filtered

\* rows of the catalog file: code, name, road, latitude; every row here
\* has the longitude 103.8000
CatalogRow(code, name, road, latitude) ==
    [BusStopCode |-> Some(code), Description |-> Some(name),
     RoadName |-> Some(road), Latitude |-> latitude,
     Longitude |-> CoordText(Some(1038000), "")]

CatalogRows ==
    {CatalogRow(<<"0", "1">>, <<"a", "b">>, <<"a">>,
                CoordText(Some(13000), "")),
     CatalogRow(<<"0", "2">>, <<"A", "b">>, <<"b">>,
                CoordText(Some(13050), "")),
     \* an empty road cell
     CatalogRow(<<"1", "0">>, <<"a", "b">>, <<>>,
                CoordText(Some(13500), "")),
     CatalogRow(<<"1", "1">>, <<"b">>, <<"B">>,
                CoordText(Some(13000), "")),
     \* the latitude cell "1.3050N"
     CatalogRow(<<"1", "2">>, <<"b">>, <<"a">>,
                CoordText(Some(13050), "N")),
     \* the latitude cell "N/A"
     CatalogRow(<<"2", "0">>, <<"a">>, <<"a">>,
                CoordText(Null, "N/A")),
     \* an empty code cell, an empty name cell
     CatalogRow(<<>>, <<"a">>, <<"a">>, CoordText(Some(13000), "")),
     CatalogRow(<<"2", "1">>, <<>>, <<"a">>, CoordText(Some(13000), ""))}

CatalogFiles == UNION {[1..k -> CatalogRows] : k \in 0..MaxRows}

\* texts typed into the search box
SearchQueries == {<<>>, <<"a">>, <<"B">>, <<"2">>}

SortModes == {"distance", "name"}

\* why getCurrentPosition calls the error callback
GeolocationErrors == {"denied", "unavailable", "timeout"}

\* why a catalog load fails before Papa.parse completes
CsvFailures == {"FetchFailure", "HttpStatus", "ParseError"}

LocationFallbackMsg ==
    "Unable to get your location. Using default location (Orchard Road)."
LocationUnsupportedMsg == "Geolocation not supported."
NoValidStopsMsg == "No valid bus stops found in CSV."
CsvErrorMsg(kind) ==
    IF kind = "ParseError" THEN "CSV parsing error"
    ELSE "Failed to load bus stops"

\* LandingPage as constructed: the initial values of its useState calls
LandingConstructed ==
    /\ landingPhase = "constructed"
    /\ searchQuery = <<>>
    /\ sortBy = "distance"
    /\ userLocation = Null
    /\ locationLoading = TRUE
    /\ locationError = "null"
    /\ busStopsData = <<>>
    /\ busStops = <<>>
    /\ filteredStops = <<>>
    /\ dataLoading = TRUE
    /\ dataError = "null"
    /\ csvPending = FALSE
    /\ geoPending = FALSE
    /\ landingOp = "construct"
    /\ geoOutcome = "none"
    /\ loadSucceeded = FALSE

\* the landing page where it is not the subject
LandingIdle ==
    /\ LandingConstructed
    /\ csvFile = <<>>
    /\ geolocationSupported = TRUE

-----------------------------------------------------------------------------
(* DashboardPage *)

NoError == "null"
CredentialMissingMsg == "LTA API key not configured"
ServiceCredentialMsg == "LTA API Key not configured"
NoServiceMsg == "No buses currently serving this stop."

\* a failure of the fetch: credential missing or a rejected fetchBusArrivals
HardError(e) ==
    e \in {CredentialMissingMsg, ServiceCredentialMsg} \cup FailureKinds

\* which of the four returns of the render function is on screen
View ==
    IF loading THEN "loading"
    ELSE IF error # NoError /\ buses = <<>> THEN "error"
    ELSE IF selectedBus # Null THEN "route"
    ELSE "main"

\* budget of the run: a call that may send a request needs one left
HasBudget == httpRequests < fetchBudget /\ refreshTimers < fetchBudget

NoResult == [kind |-> "none", buses |-> <<>>, error |-> NoError]

\* the dashboard as constructed for the route /dashboards/44411/...
DashInit ==
    /\ phase = "constructed"
    /\ busStopCode = "44411"
    /\ currentTime = 0
    /\ isRefreshing = FALSE
    /\ selectedBus = Null
    /\ buses = <<>>
    /\ loading = TRUE
    /\ error = NoError
    /\ lastUpdated = Null
    /\ inflight = {}
    /\ httpRequests = 0
    /\ refreshTimers = 0
    /\ wallClock = 0
    /\ directOutcome = "none"
    /\ lastOp = "construct"
    /\ lastResolved = NoResult
    /\ awaitingRetry = "no"
    /\ busesFrom = "none"

CallIdle ==
    /\ pc = "idle"
    /\ arg = <<>>
    /\ clk = 0
    /\ ret = <<>>

Init ==
    /\ API_KEY \in ApiKeys
    /\ fetchBudget = MaxFetches
    /\ DashInit
    /\ CallIdle
    /\ LandingIdle

\* busesFrom records the stop code of the fetch whose list is in buses.
\* awaitingRetry records the failures of the run: "yes" from a failed load
\* (credential missing or a rejected fetch) until the next load that is not
\* started by the 30-second timer, "navigated" when that load came from a
\* change of the stop code and no manual refresh followed, "no" otherwise.

\* time passes: the wall clock read by an action is no earlier than before
TimePasses(t) == t \in ClockTimes /\ t >= wallClock /\ wallClock' = t

fetchBusArrivals_dedupe(code, caller) ==
    /\ ~fetchBusArrivalsThrowsEarly
    /\ IF \E f \in inflight : f.stop = code
       THEN UNCHANGED <<inflight, httpRequests>>
       ELSE /\ inflight' = inflight \cup
                   {[id |-> httpRequests + 1, stop |-> code,
                     caller |-> caller]}
            /\ httpRequests' = httpRequests + 1

\* fetchBusArrivals up to its first await: with a falsy key it throws
\* before fetch() is called, otherwise one GET is sent
fetchBusArrivals(code, caller) ==
    /\ ~fetchBusArrivalsThrowsEarly
    /\ inflight' = inflight \cup
           {[id |-> httpRequests + 1, stop |-> code, caller |-> caller]}
    /\ httpRequests' = httpRequests + 1

\* loadBusArrivals up to its await, called by the initial-load effect
\* ("initial"), the 30-second interval ("poll") or handleRefresh ("manual"),
\* with the busStopCode of the render the caller belongs to.
\* A manual call that completes at once lets handleRefresh arm its
\* 500 ms timer.
loadBusArrivals(code, caller) ==
    IF ~isApiKeyConfigured
    THEN /\ error' = CredentialMissingMsg
         /\ loading' = FALSE
         /\ awaitingRetry' = "yes"
         /\ refreshTimers' = IF caller = "manual" THEN refreshTimers + 1
                                                  ELSE refreshTimers
         /\ UNCHANGED <<inflight, httpRequests>>
    ELSE IF fetchBusArrivalsThrowsEarly
    THEN /\ error' = ServiceCredentialMsg
         /\ loading' = FALSE
         /\ awaitingRetry' = "yes"
         /\ refreshTimers' = IF caller = "manual" THEN refreshTimers + 1
                                                  ELSE refreshTimers
         /\ UNCHANGED <<inflight, httpRequests>>
    ELSE /\ error' = NoError
         /\ awaitingRetry' =
                CASE caller = "manual" -> "no"
                  [] caller = "initial" /\ awaitingRetry = "yes" -> "navigated"
                  [] OTHER -> awaitingRetry
         /\ fetchBusArrivals(code, caller)
         /\ UNCHANGED <<loading, refreshTimers>>

\* useEffect(() => { loadBusArrivals(); }, [busStopCode]) and the two
\* setInterval effects, run after the first render
MountEffects ==
    /\ phase = "constructed"
    /\ phase' = "mounted"
    /\ loadBusArrivals(busStopCode, "initial")
    /\ lastOp' = "mount"
    /\ UNCHANGED <<confVars, busStopCode, currentTime, isRefreshing,
                   selectedBus, buses, lastUpdated, wallClock, directOutcome,
                   lastResolved, busesFrom, callVars, landVars>>

IntervalsActive_noCleanup == phase # "constructed"

\* the two setInterval timers run from the mount effects until the
\* cleanups of those effects call clearInterval at unmount
IntervalsActive == phase = "mounted"

\* the callback of setInterval(..., 30000)
AutoRefreshGuard_noErrorCheck == ~loading

AutoRefreshGuard == ~loading /\ error = NoError

AutoRefreshTick ==
    /\ IntervalsActive
    /\ HasBudget
    /\ IF AutoRefreshGuard
       THEN loadBusArrivals(busStopCode, "poll")
       ELSE UNCHANGED <<error, loading, awaitingRetry, refreshTimers,
                        inflight, httpRequests>>
    /\ lastOp' = "poll"
    /\ UNCHANGED <<confVars, phase, busStopCode, currentTime, isRefreshing,
                   selectedBus, buses, lastUpdated, wallClock, directOutcome,
                   lastResolved, busesFrom, callVars, landVars>>

\* the refresh button of the main view (disabled while isRefreshing) and
\* the Try Again button of the error view; the loading view and the route
\* view have neither
RefreshButtonEnabled ==
    \/ View = "error"
    \/ View = "main" /\ ~isRefreshing

\* handleRefresh up to its await
handleRefresh ==
    /\ phase = "mounted"
    /\ RefreshButtonEnabled
    /\ HasBudget
    /\ isRefreshing' = TRUE
    /\ loadBusArrivals(busStopCode, "manual")
    /\ lastOp' = "refresh"
    /\ UNCHANGED <<confVars, phase, busStopCode, currentTime, selectedBus,
                   buses, lastUpdated, wallClock, directOutcome,
                   lastResolved, busesFrom, callVars, landVars>>

\* setTimeout(() => setIsRefreshing(false), 500)
RefreshTimerFires ==
    /\ refreshTimers > 0
    /\ refreshTimers' = refreshTimers - 1
    /\ isRefreshing' = IF phase = "mounted" THEN FALSE ELSE isRefreshing
    /\ lastOp' = "timer"
    /\ UNCHANGED <<confVars, phase, busStopCode, currentTime, selectedBus,
                   buses, loading, error, lastUpdated, inflight,
                   httpRequests, wallClock, directOutcome, lastResolved,
                   busesFrom,
                   awaitingRetry, callVars, landVars>>

ClockTick_whenLoaded ==
    /\ IntervalsActive
    /\ ~loading
    /\ \E t \in ClockTimes : TimePasses(t) /\ currentTime' = t
    /\ lastOp' = "clock"
    /\ UNCHANGED <<confVars, phase, busStopCode, isRefreshing, selectedBus,
                   buses, loading, error, lastUpdated, inflight,
                   httpRequests, refreshTimers, directOutcome, lastResolved,
                   busesFrom, awaitingRetry, callVars, landVars>>

\* the callback of setInterval(..., 1000): setCurrentTime(new Date())
ClockTick ==
    /\ IntervalsActive
    /\ \E t \in ClockTimes : TimePasses(t) /\ currentTime' = t
    /\ lastOp' = "clock"
    /\ UNCHANGED <<confVars, phase, busStopCode, isRefreshing, selectedBus,
                   buses, loading, error, lastUpdated, inflight,
                   httpRequests, refreshTimers, directOutcome, lastResolved,
                   busesFrom, awaitingRetry, callVars, landVars>>

\* the fetches of loadBusArrivals that are awaiting their response
DashFetches == {f \in inflight : f.caller # "direct"}

\* handleRefresh after its await: the 500 ms timer is armed
AfterLoad(f) ==
    refreshTimers' = IF f.caller = "manual" THEN refreshTimers + 1
                                            ELSE refreshTimers

\* loadBusArrivals after its await, fetchBusArrivals having returned data
\* (state setters of an unmounted component do nothing)
FetchFulfils ==
    \E f \in DashFetches, Services \in DashResponses, t \in ClockTimes :
        LET data == parseBusArrivalData(Services, t) IN
        /\ TimePasses(t)
        /\ inflight' = inflight \ {f}
        /\ AfterLoad(f)
        /\ IF phase = "mounted"
           THEN /\ IF Len(data) = 0
                   THEN /\ error' = NoServiceMsg
                        /\ UNCHANGED <<buses, lastUpdated, busesFrom>>
                   ELSE /\ buses' = data
                        /\ lastUpdated' = Some(t)
                        /\ busesFrom' = f.stop
                        /\ UNCHANGED error
                /\ loading' = FALSE
           ELSE UNCHANGED <<error, buses, lastUpdated, loading, busesFrom>>
        /\ lastResolved' = [kind |-> IF Len(data) = 0 THEN "empty"
                                                      ELSE "nonempty",
                            buses |-> data, error |-> NoError]
        /\ lastOp' = "fulfil"
        /\ UNCHANGED <<confVars, phase, busStopCode, currentTime,
                       isRefreshing, selectedBus, httpRequests,
                       directOutcome, awaitingRetry, callVars, landVars>>

FetchRejects_keepLoading ==
    \E f \in DashFetches, err \in FailureKinds, t \in ClockTimes :
        /\ TimePasses(t)
        /\ inflight' = inflight \ {f}
        /\ AfterLoad(f)
        /\ IF phase = "mounted"
           THEN /\ error' = err
                /\ awaitingRetry' = "yes"
           ELSE UNCHANGED <<error, awaitingRetry>>
        /\ lastResolved' = [kind |-> "failure", buses |-> <<>>,
                            error |-> err]
        /\ lastOp' = "reject"
        /\ UNCHANGED <<confVars, phase, busStopCode, currentTime,
                       isRefreshing, selectedBus, buses, loading,
                       lastUpdated, httpRequests, directOutcome, busesFrom,
                       callVars, landVars>>

\* loadBusArrivals after its await, in the catch block
FetchRejects ==
    \E f \in DashFetches, err \in FailureKinds, t \in ClockTimes :
        /\ TimePasses(t)
        /\ inflight' = inflight \ {f}
        /\ AfterLoad(f)
        /\ IF phase = "mounted"
           THEN /\ error' = err
                /\ loading' = FALSE
                /\ awaitingRetry' = "yes"
           ELSE UNCHANGED <<error, loading, awaitingRetry>>
        /\ lastResolved' = [kind |-> "failure", buses |-> <<>>,
                            error |-> err]
        /\ lastOp' = "reject"
        /\ UNCHANGED <<confVars, phase, busStopCode, currentTime,
                       isRefreshing, selectedBus, buses, lastUpdated,
                       httpRequests, directOutcome, busesFrom, callVars,
                       landVars>>

\* onClick of a bus card of the main view: setSelectedBus(bus)
SelectBus ==
    /\ phase = "mounted"
    /\ View = "main"
    /\ \E i \in DOMAIN buses : selectedBus' = Some(buses[i])
    /\ lastOp' = "select"
    /\ UNCHANGED <<confVars, phase, busStopCode, currentTime, isRefreshing,
                   buses, loading, error, lastUpdated, envVars,
                   lastResolved, busesFrom, awaitingRetry, callVars, landVars>>

\* Back to Arrivals of the route view: setSelectedBus(null)
BackToArrivals ==
    /\ phase = "mounted"
    /\ View = "route"
    /\ selectedBus' = Null
    /\ lastOp' = "backToArrivals"
    /\ UNCHANGED <<confVars, phase, busStopCode, currentTime, isRefreshing,
                   buses, loading, error, lastUpdated, envVars,
                   lastResolved, busesFrom, awaitingRetry, callVars, landVars>>

\* navigate('/'): the dashboard is unmounted and the cleanups of its
\* effects clear both intervals
handleBackToList ==
    /\ phase = "mounted"
    /\ View \in {"error", "main"}
    /\ phase' = "unmounted"
    /\ lastOp' = "backToList"
    /\ UNCHANGED <<confVars, busStopCode, currentTime, isRefreshing,
                   selectedBus, buses, loading, error, lastUpdated, envVars,
                   lastResolved, busesFrom, awaitingRetry, callVars, landVars>>

\* the :busStopCode parameter of the route changes under the mounted
\* dashboard; the effect with dependency [busStopCode] runs again
StopCodeChanges ==
    /\ phase = "mounted"
    /\ HasBudget
    /\ \E code \in StopCodes \ {busStopCode} :
          /\ busStopCode' = code
          /\ loadBusArrivals(code, "initial")
    /\ lastOp' = "stopCode"
    /\ UNCHANGED <<confVars, phase, currentTime, isRefreshing, selectedBus,
                   buses, lastUpdated, wallClock, directOutcome,
                   lastResolved, busesFrom, callVars, landVars>>

\* a caller other than the dashboard calls the exported fetchBusArrivals
DirectFetch ==
    /\ directOutcome = "none"
    /\ HasBudget
    /\ \E code \in StopCodes :
          IF fetchBusArrivalsThrowsEarly
          THEN /\ directOutcome' = "CredentialMissing"
               /\ UNCHANGED <<inflight, httpRequests>>
          ELSE /\ directOutcome' = "pending"
               /\ fetchBusArrivals(code, "direct")
    /\ lastOp' = "direct"
    /\ UNCHANGED <<confVars, dashVars, refreshTimers, wallClock,
                   lastResolved, busesFrom, awaitingRetry, callVars, landVars>>

\* the promise of that call settles
DirectSettles ==
    /\ \E f \in inflight \ DashFetches :
          /\ inflight' = inflight \ {f}
          /\ directOutcome' \in {"fulfilled", "rejected"}
    /\ lastOp' = "directSettles"
    /\ UNCHANGED <<confVars, dashVars, httpRequests, refreshTimers,
                   wallClock, lastResolved, busesFrom, awaitingRetry,
                   callVars, landVars>>

Next ==
    \/ MountEffects
    \/ AutoRefreshTick
    \/ handleRefresh
    \/ RefreshTimerFires
    \/ ClockTick
    \/ FetchFulfils
    \/ FetchRejects
    \/ SelectBus
    \/ BackToArrivals
    \/ handleBackToList
    \/ StopCodeChanges
    \/ DirectFetch
    \/ DirectSettles

Spec == Init /\ [][Next]_vars

TypeOK ==
    /\ API_KEY \in ApiKeys
    /\ fetchBudget \in {MaxFetches, MaxFairFetches}
    /\ phase \in {"constructed", "mounted", "unmounted"}
    /\ busStopCode \in StopCodes
    /\ loading \in BOOLEAN
    /\ isRefreshing \in BOOLEAN
    /\ httpRequests \in 0..MaxFetches
    /\ Cardinality(inflight) <= httpRequests

-----------------------------------------------------------------------------
(* calculateMinutesUntilArrival on drawn inputs *)

\* quarter-minutes, and the milliseconds next to them
EtaTimes ==
    {t \in {k * (MsPerMinute \div 4) + d :
                k \in 0..MaxQuarterMinutes, d \in {-1, 0, 1}} : t >= 0}

EtaArgs == {NoTimestamp, GarbageTimestamp} \cup {Timestamp(t) : t \in EtaTimes}

InitEta ==
    /\ API_KEY = "account-key"
    /\ fetchBudget = MaxFetches
    /\ DashInit
    /\ LandingIdle
    /\ pc = "ready"
    /\ arg \in EtaArgs
    /\ clk \in EtaTimes
    /\ ret = <<>>

CallEta ==
    /\ pc = "ready"
    /\ ret' = calculateMinutesUntilArrival(arg, clk)
    /\ pc' = "returned"
    /\ UNCHANGED <<confVars, dashVars, envVars, histVars, arg, clk, landVars>>

NextEta == CallEta

SpecEta == InitEta /\ [][NextEta]_vars

-----------------------------------------------------------------------------
(* parseBusArrivalData on drawn API responses *)

ParseArrivals ==
    {NoTimestamp, Timestamp(MsPerMinute), Timestamp(2 * MsPerMinute)}

ParseResponses ==
    SeqsUpTo(ServiceRecords({"15"},
                            ParseArrivals \X ParseArrivals \X ParseArrivals),
             MaxServices)

InitParse ==
    /\ API_KEY = "account-key"
    /\ fetchBudget = MaxFetches
    /\ DashInit
    /\ LandingIdle
    /\ pc = "ready"
    /\ arg \in ParseResponses
    /\ clk \in ClockTimes
    /\ ret = <<>>

CallParse ==
    /\ pc = "ready"
    /\ ret' = parseBusArrivalData(arg, clk)
    /\ pc' = "returned"
    /\ UNCHANGED <<confVars, dashVars, envVars, histVars, arg, clk, landVars>>

NextParse == CallParse

SpecParse == InitParse /\ [][NextParse]_vars

-----------------------------------------------------------------------------
(* Claims about the dashboard (Spec) *)

\* C1: each time a fetch resolves on the mounted dashboard, the bus list of
\* the view model is exactly the list that fetch returned: the parsed list
\* when it is non-empty, and no bus at all when the result is empty or a
\* failure.
C1_LatestResultOverwrites ==
    (phase = "mounted" /\ lastOp \in {"fulfil", "reject"})
        => buses = lastResolved.buses

\* the "No buses available" block of the main view is on screen
NoBusesMessageShown == View = "main" /\ buses = <<>>

\* C2: after a fetch succeeded with zero estimates, the error field does not
\* hold the no-service text, and the screen shows the "no buses" message of
\* the main view, not the error view with its Try Again button.
C2_EmptySuccessIsNotError ==
    (phase = "mounted" /\ lastOp = "fulfil" /\ lastResolved.kind = "empty")
        => /\ error # NoServiceMsg
           /\ View # "error"
           /\ NoBusesMessageShown

\* C3 as stated: from a failed load until the user's next manual refresh,
\* no tick of the 30-second timer starts a fetch.
C3_NoPollUntilManualRetry ==
    [][(awaitingRetry \in {"yes", "navigated"} /\ lastOp' = "poll")
          => httpRequests' = httpRequests]_vars

\* C3 (amended): from a failed load until the user's next manual refresh or
\* the next change of the routed stop code, no tick of the 30-second timer
\* starts a fetch, and the error field is not cleared.
C3_NoPollUntilRetryOrStopChange ==
    [][(awaitingRetry = "yes" /\ lastOp' = "poll")
          => /\ httpRequests' = httpRequests
             /\ inflight' = inflight
             /\ error' = error
             /\ error # NoError]_vars

\* a tick of the 30-second timer has just been swallowed in a hard-error
\* state
C3_Witness ==
    /\ phase = "mounted"
    /\ lastOp = "poll"
    /\ awaitingRetry = "yes"
    /\ error \in FailureKinds
    /\ inflight = {}

\* C4: on the mounted dashboard, when loading is over and no failed load is
\* outstanding (in particular after a fetch that returned zero estimates),
\* every tick of the 30-second timer starts a fetch.
C4_PollRunsUnlessHardError ==
    [][(phase = "mounted" /\ ~loading /\ awaitingRetry = "no"
            /\ ~HardError(error) /\ lastOp' = "poll")
          => httpRequests' = httpRequests + 1]_vars

\* C5: when no API key is configured, no HTTP request is ever sent, a
\* direct call of fetchBusArrivals ends in the credential-missing failure,
\* and every load of the dashboard leaves the credential-missing error.
C5_NoRequestWithoutCredential ==
    ~isApiKeyConfigured
        => /\ httpRequests = 0
           /\ inflight = {}
           /\ directOutcome \in {"none", "CredentialMissing"}
           /\ phase = "mounted"
                 => error \in {CredentialMissingMsg, ServiceCredentialMsg}

\* C6: after a failed load (a rejected fetch, or a load without a
\* credential) the error view, with the message of that failure and the
\* Try Again button, is on screen.
C6_FailureIsRendered ==
    /\ (phase = "mounted" /\ lastOp = "reject")
          => (error = lastResolved.error /\ View = "error")
    /\ (phase = "mounted" /\ ~isApiKeyConfigured)
          => (error = CredentialMissingMsg /\ View = "error")

\* C10 as stated: in every state of the mounted dashboard a manual refresh
\* can be triggered, and triggering it adds a fetch to those in flight.
C10_RefreshAlwaysAvailable ==
    (phase = "mounted" /\ HasBudget)
        => /\ ENABLED handleRefresh
           /\ ~ENABLED (handleRefresh /\ inflight' = inflight)

\* C10 (amended): on the mounted dashboard a manual refresh can be
\* triggered exactly when the error view is shown, or the main view is
\* shown and isRefreshing is false (not on the loading view, not on the
\* route view of a selected bus, not on the main view while isRefreshing);
\* with a configured API key, triggering it always adds one fetch to those
\* in flight, whatever is in flight already.
C10_RefreshWhereButtonIsEnabled ==
    (phase = "mounted" /\ HasBudget)
        => /\ (ENABLED handleRefresh)
                 <=> (~loading /\ (\/ (error # NoError /\ buses = <<>>)
                                   \/ (selectedBus = Null /\ ~isRefreshing)))
           /\ isApiKeyConfigured
                 => ~ENABLED (/\ handleRefresh
                              /\ ~(/\ inflight \subseteq inflight'
                                    /\ Cardinality(inflight')
                                          = Cardinality(inflight) + 1))

\* a manual refresh has just been started while another fetch was in flight
C10_Witness ==
    /\ phase = "mounted"
    /\ lastOp = "refresh"
    /\ Cardinality(DashFetches) >= 2
    /\ \E f \in DashFetches : f.caller = "manual"
    /\ \E f \in DashFetches : f.caller # "manual"

-----------------------------------------------------------------------------
(* Claims about parseBusArrivalData (SpecParse) *)

\* the ETA list of bus has three slots, slot k holding the minutes of the
\* k-th prediction of service, or null when that prediction has no
\* timestamp
SlotsMatch(bus, service) ==
    /\ bus.number = service.ServiceNo
    /\ Len(bus.arrivals) = 3
    /\ \A k \in 1..3 :
          bus.arrivals[k] =
              calculateMinutesUntilArrival(
                  NextBuses(service)[k].EstimatedArrival, clk)

\* C7: every bus of the returned list has an ETA list of exactly three
\* slots, slot k being null exactly when the k-th prediction of its service
\* record has no timestamp and holding that prediction's minutes otherwise.
C7_ThreeSlotsInPlace ==
    pc = "returned"
        => \A i \in DOMAIN ret : \E j \in DOMAIN arg : SlotsMatch(ret[i], arg[j])

HasTimestamp(service) ==
    \E k \in 1..3 : NextBuses(service)[k].EstimatedArrival # NoTimestamp

\* C8: the returned list holds, in order, one bus for each service record
\* that has at least one timestamp and none for the others; every bus of it
\* has a non-null ETA slot; when no record has a timestamp it is empty.
C8_NoArrivalNoBus ==
    pc = "returned"
        => LET kept == SelectSeq(arg, HasTimestamp) IN
           /\ Len(ret) = Len(kept)
           /\ \A i \in DOMAIN ret :
                 /\ ret[i] = BusOf(kept[i], clk)
                 /\ \E k \in DOMAIN ret[i].arrivals : ret[i].arrivals[k] # Null
           /\ (\A j \in DOMAIN arg : ~HasTimestamp(arg[j])) => ret = <<>>

\* a response with a record without timestamps and a record with one has
\* been parsed, and one bus came back
C8_Witness ==
    /\ pc = "returned"
    /\ Len(arg) = 2
    /\ ~HasTimestamp(arg[1])
    /\ HasTimestamp(arg[2])
    /\ Len(ret) = 1

-----------------------------------------------------------------------------
(* Claims about calculateMinutesUntilArrival (SpecEta) *)

\* C9: for a timestamp t and a current time now the result r is the number
\* of whole minutes from now to t, that is r * 60000 <= t - now <
\* (r + 1) * 60000, and 0 when t is in the past: max(0, floor((t - now) /
\* 60000)); 90 seconds ahead gives 1; the result is never negative.
C9_FlooredAndClamped ==
    (pc = "returned" /\ arg.k = "iso")
        => LET d == arg.ms - clk IN
           /\ ret # Null
           /\ ret[1] >= 0
           /\ ret[1] = Max(0, d \div MsPerMinute)
           /\ d < 0 => ret[1] = 0
           /\ d >= 0 => (ret[1] * MsPerMinute <= d
                          /\ d < (ret[1] + 1) * MsPerMinute)
           /\ d = 90000 => ret[1] = 1

\* a timestamp in the past has been converted
C9_Witness ==
    /\ pc = "returned"
    /\ arg.k = "iso"
    /\ arg.ms < clk
    /\ ret = Some(0)

-----------------------------------------------------------------------------
(* Further claims about the dashboard (Spec) *)

\* C11: once the dashboard is torn down, no tick of its 1-second clock and
\* no tick of its 30-second poll occurs, the displayed time stays, and no
\* fetch of the dashboard is started.
C11_NoTickAfterTeardown ==
    [][phase = "unmounted"
          => /\ lastOp' \notin {"poll", "clock"}
             /\ currentTime' = currentTime
             /\ \A f \in inflight' : f.caller # "direct" => f \in inflight]_vars

\* the dashboard was torn down with a fetch in flight, which has resolved
C11_Witness ==
    /\ phase = "unmounted"
    /\ lastOp \in {"fulfil", "reject"}

\* C19: in every state of the mounted dashboard (loading, error, fetch in
\* flight, idle) the 1-second clock can tick, and a tick leaves the bus
\* list, the error, the loading flag, the last-updated time, the fetches in
\* flight and the rest of the dashboard state as they are: only the
\* displayed time changes.
C19_ClockIndependent ==
    phase = "mounted"
        => /\ ENABLED ClockTick
           /\ ~ENABLED (/\ ClockTick
                        /\ ~UNCHANGED <<buses, error, loading, lastUpdated,
                                        inflight, httpRequests, isRefreshing,
                                        selectedBus, busStopCode,
                                        refreshTimers>>)

\* the clock has ticked on the loading view, with the initial fetch in
\* flight
C19_Witness ==
    /\ phase = "mounted"
    /\ lastOp = "clock"
    /\ loading
    /\ inflight # {}
    /\ currentTime > 0

\* C20: on the mounted dashboard, whenever the fetch that resolved last
\* delivered a non-empty bus list, the error field is null.
C20_HealthyListMeansNoError ==
    (phase = "mounted" /\ lastResolved.kind = "nonempty") => error = NoError

-----------------------------------------------------------------------------
(* mapLoadStatus and mapBusType on drawn codes *)

\* codes of the API, the empty string, a missing value (the property key
\* "undefined"), and other strings
StatusCodes ==
    {"SEA", "SDA", "LSD", "SD", "DD", "BD", "", "undefined", "XYZ", "sea",
     "constructor", "toString"}

InitMap ==
    /\ API_KEY = "account-key"
    /\ fetchBudget = MaxFetches
    /\ DashInit
    /\ LandingIdle
    /\ pc = "ready"
    /\ arg \in [Load : StatusCodes, Type : StatusCodes]
    /\ clk = 0
    /\ ret = <<>>

CallMap ==
    /\ pc = "ready"
    /\ ret' = [load |-> mapLoadStatus(arg.Load), type |-> mapBusType(arg.Type)]
    /\ pc' = "returned"
    /\ UNCHANGED <<confVars, dashVars, envVars, histVars, arg, clk, landVars>>

NextMap == CallMap

SpecMap == InitMap /\ [][NextMap]_vars

\* C18: for every occupancy code other than SEA, SDA, LSD mapLoadStatus
\* returns 'unknown', and for every vehicle-type code other than SD, DD, BD
\* mapBusType returns 'Unknown'.
C18_UnrecognisedIsUnknown ==
    pc = "returned"
        => /\ arg.Load \notin {"SEA", "SDA", "LSD"} => ret.load = "unknown"
           /\ arg.Type \notin {"SD", "DD", "BD"} => ret.type = "Unknown"

-----------------------------------------------------------------------------
(* LandingPage: the state machine *)

InitLanding ==
    /\ API_KEY = "account-key"
    /\ fetchBudget = MaxFetches
    /\ DashInit
    /\ CallIdle
    /\ LandingConstructed
    /\ csvFile \in CatalogFiles
    /\ geolocationSupported \in BOOLEAN

\* what the component renders
LandingView ==
    IF landingPhase # "mounted" THEN "blank"
    ELSE IF dataError # NoError THEN "error"
    ELSE IF locationLoading \/ dataLoading THEN "loading"
    ELSE "list"

\* The distance effect and the filter effect, run to quiescence after a
\* state change: distanceDeps says that userLocation or busStopsData
\* changed, filterDeps that searchQuery or sortBy did. The distance
\* effect sets busStops and filteredStops to the ranked catalog; the new
\* busStops then runs the filter effect. An exception thrown by an effect
\* is not caught by any error boundary, and React unmounts the tree.
RunEffects(location, data, query, mode, distanceDeps, filterDeps) ==
    LET ranks == distanceDeps /\ location # Null /\ data # <<>>
        ranked == IF ranks THEN RankedStops(data, location[1]) ELSE busStops
        filters == (ranks \/ filterDeps) /\ ranked # <<>>
    IN /\ busStops' = ranked
       /\ IF filters /\ FilterThrows(ranked, query)
          THEN /\ landingPhase' = "crashed"
               /\ filteredStops' = IF ranks THEN ranked ELSE filteredStops
          ELSE /\ landingPhase' = landingPhase
               /\ filteredStops' =
                      IF filters THEN FilterAndSort(ranked, query, mode)
                      ELSE filteredStops

loadBusStopsFromCSV_keepError ==
    /\ dataLoading' = TRUE
    /\ dataError' = dataError
    /\ csvPending' = TRUE

\* the synchronous part of loadBusStopsFromCSV: setDataLoading(true),
\* setDataError(null), fetch(csvUrl)
loadBusStopsFromCSV ==
    /\ dataLoading' = TRUE
    /\ dataError' = NoError
    /\ csvPending' = TRUE

\* the mount effects: the catalog load and the geolocation request; the
\* distance and filter effects return at their guards
LandingMount ==
    /\ landingPhase = "constructed"
    /\ landingPhase' = "mounted"
    /\ loadBusStopsFromCSV
    /\ IF geolocationSupported
       THEN /\ locationLoading' = TRUE
            /\ geoPending' = TRUE
            /\ UNCHANGED <<userLocation, locationError, geoOutcome>>
       ELSE /\ locationError' = LocationUnsupportedMsg
            /\ userLocation' = Some(FallbackLocation)
            /\ locationLoading' = FALSE
            /\ geoOutcome' = "unsupported"
            /\ UNCHANGED geoPending
    /\ landingOp' = "mount"
    /\ UNCHANGED <<confVars, dashVars, envVars, histVars, callVars,
                   searchQuery, sortBy, busStopsData, busStops,
                   filteredStops, csvFile, geolocationSupported,
                   loadSucceeded>>

\* the success callback of getCurrentPosition
GeoSucceeds ==
    /\ landingPhase = "mounted"
    /\ geoPending
    /\ geoPending' = FALSE
    /\ userLocation' = Some(DevicePosition)
    /\ locationLoading' = FALSE
    /\ geoOutcome' = "success"
    /\ RunEffects(userLocation', busStopsData, searchQuery, sortBy,
                  TRUE, FALSE)
    /\ landingOp' = "position"
    /\ UNCHANGED <<confVars, dashVars, envVars, histVars, callVars,
                   searchQuery, sortBy, locationError, busStopsData,
                   dataLoading, dataError, csvFile, geolocationSupported,
                   csvPending, loadSucceeded>>

GeoFails_noFallback(reason) ==
    /\ landingPhase = "mounted"
    /\ geoPending
    /\ geoPending' = FALSE
    /\ locationError' = LocationFallbackMsg
    /\ geoOutcome' = reason
    /\ landingOp' = "positionError"
    /\ UNCHANGED <<confVars, dashVars, envVars, histVars, callVars,
                   landingPhase, searchQuery, sortBy, userLocation,
                   locationLoading, busStopsData, busStops, filteredStops,
                   dataLoading, dataError, csvFile, geolocationSupported,
                   csvPending, loadSucceeded>>

\* the error callback of getCurrentPosition: permission denied, position
\* unavailable, or the 10-second timeout of the request options
GeoFails(reason) ==
    /\ landingPhase = "mounted"
    /\ geoPending
    /\ geoPending' = FALSE
    /\ locationError' = LocationFallbackMsg
    /\ userLocation' = Some(FallbackLocation)
    /\ locationLoading' = FALSE
    /\ geoOutcome' = reason
    /\ RunEffects(userLocation', busStopsData, searchQuery, sortBy,
                  TRUE, FALSE)
    /\ landingOp' = "positionError"
    /\ UNCHANGED <<confVars, dashVars, envVars, histVars, callVars,
                   searchQuery, sortBy, busStopsData, dataLoading,
                   dataError, csvFile, geolocationSupported, csvPending,
                   loadSucceeded>>

\* getCurrentPosition calls one of its two callbacks
GeoSettles == GeoSucceeds \/ \E reason \in GeolocationErrors : GeoFails(reason)

\* the load fails before the complete callback: fetch rejects, the
\* response is not OK, or Papa.parse reports an error
CsvFails(kind) ==
    /\ landingPhase = "mounted"
    /\ csvPending
    /\ csvPending' = FALSE
    /\ dataError' = CsvErrorMsg(kind)
    /\ dataLoading' = FALSE
    /\ landingOp' = "csvFails"
    /\ UNCHANGED <<confVars, dashVars, envVars, histVars, callVars,
                   landingPhase, searchQuery, sortBy, userLocation,
                   locationLoading, locationError, busStopsData, busStops,
                   filteredStops, csvFile, geolocationSupported, geoPending,
                   geoOutcome, loadSucceeded>>

\* the complete callback of Papa.parse
CsvCompletes ==
    /\ landingPhase = "mounted"
    /\ csvPending
    /\ csvPending' = FALSE
    /\ dataLoading' = FALSE
    /\ LET stops == StopsOfFile(csvFile)
       IN IF stops = <<>>
          THEN /\ dataError' = NoValidStopsMsg
               /\ landingOp' = "csvEmpty"
               /\ UNCHANGED <<landingPhase, busStopsData, busStops,
                              filteredStops, loadSucceeded>>
          ELSE /\ busStopsData' = stops
               /\ loadSucceeded' = TRUE
               /\ landingOp' = "csvLoaded"
               /\ RunEffects(userLocation, stops, searchQuery, sortBy,
                             TRUE, FALSE)
               /\ UNCHANGED dataError
    /\ UNCHANGED <<confVars, dashVars, envVars, histVars, callVars,
                   searchQuery, sortBy, userLocation, locationLoading,
                   locationError, csvFile, geolocationSupported, geoPending,
                   geoOutcome>>

\* the Try Again button of the error view: onClick={loadBusStopsFromCSV}
RetryLoad ==
    /\ LandingView = "error"
    /\ loadBusStopsFromCSV
    /\ landingOp' = "retry"
    /\ UNCHANGED <<confVars, dashVars, envVars, histVars, callVars,
                   landingPhase, searchQuery, sortBy, userLocation,
                   locationLoading, locationError, busStopsData, busStops,
                   filteredStops, csvFile, geolocationSupported, geoPending,
                   geoOutcome, loadSucceeded>>

\* typing in the search box, or one of its clear buttons
setSearchQuery(query) ==
    /\ LandingView = "list"
    /\ query # searchQuery
    /\ searchQuery' = query
    /\ RunEffects(userLocation, busStopsData, query, sortBy, FALSE, TRUE)
    /\ landingOp' = "search"
    /\ UNCHANGED <<confVars, dashVars, envVars, histVars, callVars,
                   sortBy, userLocation, locationLoading, locationError,
                   busStopsData, dataLoading, dataError, csvFile,
                   geolocationSupported, csvPending, geoPending, geoOutcome,
                   loadSucceeded>>

\* the Nearest and A-Z buttons
setSortBy(mode) ==
    /\ LandingView = "list"
    /\ mode # sortBy
    /\ sortBy' = mode
    /\ RunEffects(userLocation, busStopsData, searchQuery, mode, FALSE, TRUE)
    /\ landingOp' = "sortBy"
    /\ UNCHANGED <<confVars, dashVars, envVars, histVars, callVars,
                   searchQuery, userLocation, locationLoading, locationError,
                   busStopsData, dataLoading, dataError, csvFile,
                   geolocationSupported, csvPending, geoPending, geoOutcome,
                   loadSucceeded>>

NextLanding ==
    \/ LandingMount
    \/ GeoSettles
    \/ \E kind \in CsvFailures : CsvFails(kind)
    \/ CsvCompletes
    \/ RetryLoad
    \/ \E query \in SearchQueries : setSearchQuery(query)
    \/ \E mode \in SortModes : setSortBy(mode)

SpecLanding == InitLanding /\ [][NextLanding]_vars

\* catalog files for the runs in which the geolocation request is
\* followed to its end: no row, or rows with and without a road
GeoCatalogFiles ==
    LET rows == {row \in CatalogRows :
                    /\ ValidStop(StopOfRow(row))
                    /\ IsNumericText(row.Latitude)
                    /\ row.Description = Some(<<"a", "b">>)}
    IN {<<>>} \cup {<<row>> : row \in rows}
              \cup {<<r1, r2>> : r1 \in rows, r2 \in rows}

InitLandingFair ==
    /\ InitLanding
    /\ csvFile \in GeoCatalogFiles

\* React runs the mount effects of a rendered component, and the browser
\* calls one callback of every getCurrentPosition request
SpecLandingFair ==
    /\ InitLandingFair
    /\ [][NextLanding]_vars
    /\ WF_vars(LandingMount)
    /\ WF_vars(GeoSettles)

-----------------------------------------------------------------------------
(* Claims about the landing page (SpecLanding, SpecLandingFair) *)

C13_FailureBlocksListAndRetries ==
    landingPhase = "mounted"
        => /\ landingOp \in {"csvFails", "csvEmpty"} => dataError # NoError
           /\ dataError # NoError
                => /\ LandingView = "error"
                   /\ ENABLED RetryLoad
                   /\ ~ENABLED (/\ RetryLoad
                                /\ ~(/\ dataError' = NoError
                                     /\ dataLoading'
                                     /\ csvPending'
                                     /\ LandingView' = "loading"))
           /\ LandingView = "list"
                => /\ loadSucceeded
                   /\ busStopsData # <<>>
                   /\ busStopsData = StopsOfFile(csvFile)

C13_Witness ==
    /\ landingOp = "retry"
    /\ dataError = NoError
    /\ csvPending
    /\ ~locationLoading
    /\ LandingView = "loading"

\* a text cell that is missing or empty
MissingText(cell) == cell = Null \/ cell = Some(<<>>)

\* a row the catalog contract calls malformed: no code, no name, or a
\* coordinate that is not a number
MalformedRow(row) ==
    \/ MissingText(row.BusStopCode)
    \/ MissingText(row.Description)
    \/ ~IsNumericText(row.Latitude)
    \/ ~IsNumericText(row.Longitude)

\* C14: once the catalog is loaded, every stop handed to the distance
\* effect has a non-empty code, a non-empty name and a numeric latitude
\* and longitude, and no stop comes from a row of the file that lacks code
\* or name or has a non-numeric coordinate.
C14_MalformedRowsExcluded ==
    loadSucceeded
        => /\ \A i \in 1..Len(busStopsData) :
                 /\ ~MissingText(busStopsData[i].code)
                 /\ ~MissingText(busStopsData[i].name)
                 /\ busStopsData[i].latitude # Null
                 /\ busStopsData[i].longitude # Null
           /\ \A r \in 1..Len(csvFile) :
                 MalformedRow(csvFile[r])
                     => \A i \in 1..Len(busStopsData) :
                            busStopsData[i] # StopOfRow(csvFile[r])

\* the distance in metres from the user to a displayed stop
MetresFromUser(stop) ==
    DistanceMetres(userLocation[1].latitude, userLocation[1].longitude,
                   stop.latitude[1], stop.longitude[1])

\* C15: whenever the list is shown, it is in ascending order of the
\* distance from the user in 'distance' mode, whatever the units the
\* distances are stored in, and in ascending order of localeCompare of the
\* names in 'name' mode.
C15_ListIsSorted ==
    LandingView = "list"
        => \A i \in 1..Len(filteredStops) : \A j \in i..Len(filteredStops) :
              /\ sortBy = "distance"
                    => MetresFromUser(filteredStops[i])
                           <= MetresFromUser(filteredStops[j])
              /\ sortBy = "name"
                    => localeCompare(filteredStops[i].name[1],
                                     filteredStops[j].name[1]) <= 0

C15_Witness ==
    /\ LandingView = "list"
    /\ landingOp = "sortBy"
    /\ sortBy = "distance"
    /\ Len(filteredStops) = 2
    /\ filteredStops[1].distance.unit = "m"
    /\ filteredStops[1].distance.value > 0
    /\ filteredStops[2].distance.unit = "km"

\* a displayed stop without the fields the distance effect added
CatalogStop(stop) ==
    [code |-> stop.code, name |-> stop.name, road |-> stop.road,
     latitude |-> stop.latitude, longitude |-> stop.longitude]

\* the ways to say which stop of the loaded catalog each displayed stop
\* is: a file may hold the same row twice
CatalogPlacings ==
    {pos \in [1..Len(filteredStops) -> 1..Len(busStopsData)] :
        /\ \A i \in DOMAIN pos :
              busStopsData[pos[i]] = CatalogStop(filteredStops[i])
        /\ \A i \in DOMAIN pos : \A j \in DOMAIN pos :
              i # j => pos[i] # pos[j]}

\* two displayed stops have the same sort key in the current mode
EqualKeys(a, b) ==
    IF sortBy = "distance" THEN a.distanceValue = b.distanceValue
    ELSE localeCompare(a.name[1], b.name[1]) = 0

\* C16 as stated: in both sort modes, two displayed stops with equal sort
\* keys appear in their catalog order.
C16_TiesInCatalogOrder ==
    LandingView = "list"
        => \E pos \in CatalogPlacings :
              \A i \in DOMAIN pos : \A j \in DOMAIN pos :
                  (i < j /\ EqualKeys(filteredStops[i], filteredStops[j]))
                      => pos[i] < pos[j]

\* C16: in 'distance' mode two displayed stops at equal distance appear
\* in their catalog order; in 'name' mode two displayed stops with equal
\* names appear nearest first, and in their catalog order when they are
\* at equal distance too.
C16_TiesInRankedOrder ==
    LandingView = "list"
        => \E pos \in CatalogPlacings :
              \A i \in DOMAIN pos : \A j \in DOMAIN pos :
                  (i < j /\ EqualKeys(filteredStops[i], filteredStops[j]))
                      => \/ /\ sortBy = "name"
                            /\ filteredStops[i].distanceValue
                                   < filteredStops[j].distanceValue
                         \/ /\ filteredStops[i].distanceValue
                                   = filteredStops[j].distanceValue
                            /\ pos[i] < pos[j]

C16_Witness ==
    /\ LandingView = "list"
    /\ sortBy = "name"
    /\ Len(filteredStops) = 2
    /\ filteredStops[1].name = filteredStops[2].name
    /\ filteredStops[1].distanceValue < filteredStops[2].distanceValue
    /\ CatalogPlacings # {}
    /\ \A pos \in CatalogPlacings : pos[1] > pos[2]

\* a stop contains the query, case-insensitively, in its name, its code
\* or its road; a stop without a road has no road that contains it
ContainsQuery(stop, query) ==
    \/ includes(toLowerCase(stop.name[1]), toLowerCase(query))
    \/ includes(toLowerCase(stop.code[1]), toLowerCase(query))
    \/ /\ stop.road # Null
       /\ includes(toLowerCase(stop.road[1]), toLowerCase(query))

\* C17: once the catalog is ranked, the filtered set is exactly the set
\* of ranked stops whose name, code or road contains the search query
\* case-insensitively; with the empty query it is the whole ranked set.
C17_FilterIsExact ==
    (landingPhase # "constructed" /\ busStops # <<>>)
        => /\ {filteredStops[i] : i \in 1..Len(filteredStops)}
                  = {busStops[i] : i \in {k \in 1..Len(busStops) :
                                   ContainsQuery(busStops[k], searchQuery)}}
           /\ searchQuery = <<>>
                  => Len(filteredStops) = Len(busStops)

-----------------------------------------------------------------------------
(* Claims about the stop code, the selected bus and the loading state *)

\* C21: while the dashboard is mounted, a bus list it holds was fetched
\* for the stop code the route has now: after the stop code changes, no
\* list fetched for the previous stop code is shown or applied.
C21_ListIsForRoutedStop ==
    (phase = "mounted" /\ buses # <<>>) => busesFrom = busStopCode

\* C22: while the route view of a selected bus is open, the selected bus
\* is an element of the current bus list.
C22_SelectedBusIsCurrent ==
    (phase = "mounted" /\ View = "route")
        => \E i \in DOMAIN buses : buses[i] = selectedBus[1]

\* C23: for a catalog that passed the validation of the load and a
\* non-empty search query, the filter effect completes: no query that can
\* be typed makes it throw over the ranked stops, and the page is never
\* torn down by an exception of the effect.
C23_FilterNeverThrows ==
    /\ landingPhase # "crashed"
    /\ \A query \in SearchQueries \ {<<>>} : ~FilterThrows(busStops, query)

-----------------------------------------------------------------------------
(* handleBusStopClick: cleanBusDescription and the detail route *)

\* characters of the stop names drawn here: letters, a digit, a space and
\* a character that is neither alphanumeric nor whitespace
NameChars == {"a", "B", "1", " ", "&"}

\* [a-zA-Z0-9\s]
AlnumOrSpace(c) == c \in {"a", "b", "A", "B", "0", "1", "2", " "}

\* String.prototype.trim
RECURSIVE TrimStart(_)
TrimStart(s) ==
    IF s # <<>> /\ Head(s) = " " THEN TrimStart(Tail(s)) ELSE s

RECURSIVE TrimEnd(_)
TrimEnd(s) ==
    IF s # <<>> /\ s[Len(s)] = " " THEN TrimEnd(SubSeq(s, 1, Len(s) - 1))
    ELSE s

\* replace(/\s+/g, '-'): every run of whitespace becomes one hyphen
RECURSIVE HyphenateSpaces(_)
HyphenateSpaces(s) ==
    IF s = <<>> THEN <<>>
    ELSE IF Head(s) = " " THEN <<"-">> \o HyphenateSpaces(TrimStart(s))
    ELSE <<Head(s)>> \o HyphenateSpaces(Tail(s))

cleanBusDescription(description) ==
    toLowerCase(HyphenateSpaces(TrimEnd(TrimStart(
        SelectSeq(description, AlnumOrSpace)))))

\* the template literal `/dashboards/${stop.code}/${cleanDescription}`;
\* the word dashboards is held as one element of the path
DashboardPath(code, cleanDescription) ==
    <<"/", "dashboards", "/">> \o code \o <<"/">> \o cleanDescription

\* the segments of a path between its slashes
RECURSIVE Segments(_)
Segments(path) ==
    IF \A i \in DOMAIN path : path[i] # "/" THEN <<path>>
    ELSE LET k == CHOOSE i \in DOMAIN path :
                      path[i] = "/" /\ \A j \in 1..(i - 1) : path[j] # "/"
         IN <<SubSeq(path, 1, k - 1)>>
                \o Segments(SubSeq(path, k + 1, Len(path)))

\* slashes at the end of a path do not count in a match
RECURSIVE DropTrailingSlashes(_)
DropTrailingSlashes(path) ==
    IF path # <<>> /\ path[Len(path)] = "/"
    THEN DropTrailingSlashes(SubSeq(path, 1, Len(path) - 1))
    ELSE path

\* <Route path="/dashboards/:busStopCode/:description">: the path is a
\* slash, dashboards, and two further segments of at least one character
MatchesDetailRoute(path) ==
    LET segments == Segments(DropTrailingSlashes(path))
    IN /\ Len(segments) = 4
       /\ segments[1] = <<>>
       /\ segments[2] = <<"dashboards">>
       /\ segments[3] # <<>>
       /\ segments[4] # <<>>

\* useParams().busStopCode of a path that matches
RouteStopCode(path) == Segments(DropTrailingSlashes(path))[3]

\* names a stop can be accepted with: not empty, up to MaxNameLen
\* characters
StopNames == UNION {[1..k -> NameChars] : k \in 1..MaxNameLen}

InitNavigate ==
    /\ API_KEY = "account-key"
    /\ fetchBudget = MaxFetches
    /\ DashInit
    /\ LandingIdle
    /\ pc = "ready"
    /\ arg \in [code : {<<"0", "1">>, <<"4", "4">>}, name : StopNames]
    /\ clk = 0
    /\ ret = <<>>

\* handleBusStopClick(stop): the path handed to navigate
handleBusStopClick ==
    /\ pc = "ready"
    /\ ret' = DashboardPath(arg.code, cleanBusDescription(arg.name))
    /\ pc' = "returned"
    /\ UNCHANGED <<confVars, dashVars, envVars, histVars, arg, clk, landVars>>

NextNavigate == handleBusStopClick

SpecNavigate == InitNavigate /\ [][NextNavigate]_vars

\* C24: the path a click on a stop navigates to matches the route
\* /dashboards/:busStopCode/:description, with busStopCode the code of the
\* stop, for every non-empty name, also one whose slug is empty.
C24_ClickReachesDashboard ==
    pc = "returned"
        => /\ MatchesDetailRoute(ret)
           /\ RouteStopCode(ret) = arg.code

-----------------------------------------------------------------------------
(* The dashboard with every started fetch settling *)

\* the promise of a fetch of loadBusArrivals settles
FetchSettles == FetchFulfils \/ FetchRejects

\* React runs the mount effects of the rendered dashboard, and every
\* fetch that was started is answered or fails
InitFair ==
    /\ API_KEY \in ApiKeys
    /\ fetchBudget = MaxFairFetches
    /\ DashInit
    /\ CallIdle
    /\ LandingIdle

SpecFair ==
    /\ InitFair
    /\ [][Next]_vars
    /\ WF_vars(MountEffects)
    /\ WF_vars(FetchSettles)

\* C25: with every started fetch settling, the dashboard eventually
\* leaves the loading state, and once loading is false no step makes it
\* true again.
C25_LoadingEndsForGood ==
    /\ <>(phase # "constructed" /\ ~loading)
    /\ [][~loading => ~loading']_vars

C25_Witness ==
    /\ phase = "mounted"
    /\ ~loading
    /\ lastOp = "stopCode"
    /\ inflight # {}
====
